---- MODULE Spec2Model ----
(***************************************************************************)
(* Job orchestrator of the playlist-to-mix pipeline: the /analyze and      *)
(* cancel endpoints (app/api/v1/endpoints/jobs.py) and the Celery worker    *)
(* task that runs a job (app/workers/analysis_tasks.py), over the shared    *)
(* AnalysisJob and Track tables.  Every action is one committed step.       *)
(***************************************************************************)
EXTENDS Integers, Sequences, FiniteSets, TLC

\* ---------------------------------------------------------------- bounds
MaxJobs == 2
MaxPlaylistLen == 2
NumTracks == 1
NumRefs == 1
WorkerSlots == 1

JobIds == 1..MaxJobs
TrackIds == 1..NumTracks
Refs == 1..NumRefs

\* ------------------------------------------------------------- constants
DefaultMaxTracks == 50
ProgressCap == 990
ProgressDone == 1000

None == "None"

\* JobStatus enum
PENDING == "pending"
PROCESSING == "processing"
COMPLETED == "completed"
FAILED == "failed"
JobStatus == {PENDING, PROCESSING, COMPLETED, FAILED}

\* FileSource enum
FS_LOCAL == "local"
FS_YOUTUBE == "youtube"
FS_UNAVAILABLE == "unavailable"
FileSource == {FS_LOCAL, FS_YOUTUBE, FS_UNAVAILABLE}

\* faulty variant of ErrCancelled: the message without its first word
ErrCancelledShort == "cancelled by user"

\* error_message values written by the code
ErrCancelled == "Job cancelled by user"
ErrNotEnough == "Not enough tracks with analysis data to generate mix"
ErrCoroutine == "argument of type 'coroutine' is not iterable"
ErrCatalogue == "catalogue error"

VARIABLES
    jobs,        \* analysis_jobs table: sequence of committed AnalysisJob rows
    transitions, \* mix_transitions table: job id -> set of persisted positions
    tracks,      \* tracks table: spotify id -> committed Track row
    task,        \* per job: the Celery task / worker running it
    response,    \* the JobStatusResponse returned by the step just taken, if it
                 \* was an /analyze request
    store,       \* object store: the set of keys that hold an uploaded object
    fetched,     \* AudioFetcher: the last fetch_audio result and the remote
                 \* downloads and uploads performed so far
    analysed,    \* one Track row with a file: its analysis block
    harmony,     \* AudioAnalyzer: a pair of keys and its key compatibility
    pair,        \* MixGenerator: a compatibility dict and the technique and
                 \* crossfade duration chosen for it
    plan,        \* MixGenerator: the tracks handed to generate_mix and its result
    limiter,     \* AudioFetcher._rate_limit: the clock, each fetcher's
                 \* last_download_time and the remote downloads started
    agent        \* DJAgent: its fields, the scheduler tasks it created and
                 \* the transitions applied

\* the job orchestrator's state, and the state of the services studied alone
orchestrator == <<jobs, transitions, tracks, task, response>>
services == <<store, fetched, analysed, harmony, pair, plan, limiter, agent>>

vars == <<jobs, transitions, tracks, task, response, store, fetched, analysed,
         harmony, pair, plan, limiter, agent>>

\* ------------------------------------------------------------ rows
Min(a, b) == IF a < b THEN a ELSE b

\* PlaylistAnalysisOptions: a request that caps the playlist at one track and
\* one that turns skip_analysis_if_exists off
PlaylistAnalysisOptions ==
    {[skip_analysis_if_exists |-> TRUE, max_tracks |-> 1],
     [skip_analysis_if_exists |-> FALSE, max_tracks |-> DefaultMaxTracks]}

\* AnalysisJob(**job_data): column defaults of the model
AnalysisJob(url, opts) ==
    [playlist_url |-> url, status |-> PENDING,
     total_tracks |-> 0, analyzed_tracks |-> 0,
     downloaded_tracks |-> 0, failed_tracks |-> 0,
     error_message |-> None, result |-> None,
     options |-> opts, celery_task_id |-> FALSE]

\* a Track row that does not exist yet
NoTrack == [exists |-> FALSE, file_path |-> FALSE, file_source |-> FS_UNAVAILABLE,
            analyzed_at |-> FALSE, analysis_error |-> FALSE]

\* Track(**track_data.dict()): a new row, no file, nothing analysed
NewTrack == [NoTrack EXCEPT !.exists = TRUE]

\* rows left by earlier runs and by fix_file_paths.py (file found on disk)
LegacyTrack == [exists |-> TRUE, file_path |-> TRUE, file_source |-> FS_YOUTUBE,
                analyzed_at |-> TRUE, analysis_error |-> FALSE]

NoTask == [pc |-> "none", i |-> 0, current |-> 0, processed |-> <<>>]

\* a task that returned, raised or was revoked: its locals are gone
DoneTask == [NoTask EXCEPT !.pc = "done"]

NoResponse == [ref |-> 0, id |-> 0, status |-> None, total_tracks |-> 0,
               analyzed_tracks |-> 0, downloaded_tracks |-> 0,
               failed_tracks |-> 0, progress_percentage |-> 0]

Exists(j) == j \in 1..Len(jobs)

\* ------------------------------------------------------------ progress
\* round((n / d) * 100, 1) in tenths of a percent; Python rounds a tie to even
RoundTenths(n, d) ==
    LET q == (1000 * n) \div d
        r == (1000 * n) % d
    IN  IF 2 * r < d THEN q
        ELSE IF 2 * r > d THEN q + 1
        ELSE IF q % 2 = 0 THEN q ELSE q + 1

\* faulty variant of CalculateProgress: the cap at 99% is left out
CalculateProgressUncapped(job) ==
    IF job.total_tracks = 0 THEN 0
    ELSE IF job.status = COMPLETED THEN ProgressDone
    ELSE IF job.status = FAILED THEN 0
    ELSE RoundTenths(job.analyzed_tracks, job.total_tracks)

\* _calculate_progress(job), in tenths of a percent
CalculateProgress(job) ==
    IF job.total_tracks = 0 THEN 0
    ELSE IF job.status = COMPLETED THEN ProgressDone
    ELSE IF job.status = FAILED THEN 0
    ELSE Min(RoundTenths(job.analyzed_tracks, job.total_tracks), ProgressCap)

JobStatusResponse(ref, id, job, progress) ==
    [ref |-> ref, id |-> id, status |-> job.status,
     total_tracks |-> job.total_tracks,
     analyzed_tracks |-> job.analyzed_tracks,
     downloaded_tracks |-> job.downloaded_tracks,
     failed_tracks |-> job.failed_tracks,
     progress_percentage |-> progress]

\* ------------------------------------------------------------ initial state
\* no fetch has been made
NoFetch ==
    [calls |-> 0, song |-> 0, file_path |-> FALSE, file_source |-> FS_UNAVAILABLE,
     s3_object_key |-> None, error |-> FALSE, downloads |-> 0, uploads |-> 0]

\* AudioAnalyzer.analysis_version, also the column default of Track
AnalysisVersion == "2.0.0"

\* a nullable number: NULL, or a value
Null == <<>>
Some(v) == <<v>>

\* a Track row as inserted by process_single_track, once it has a file
UnanalysedTrack ==
    [file_path |-> TRUE, bpm |-> Null, key |-> Null, energy |-> Null,
     analysis_version |-> AnalysisVersion,
     analyzed_at |-> FALSE, analysis_error |-> FALSE, runs |-> 0]

\* the score 1.0; scores are in ten-thousandths
ScoreOne == 10000

Tenths(n) == (n * ScoreOne) \div 10

\* no keys compared yet
NoHarmony == [key_a |-> <<>>, key_b |-> <<>>, key_compatibility |-> Null]

\* calculate_compatibility's initial dict, with no technique chosen for it
NoPair ==
    [bpm_compatibility |-> 0, key_compatibility |-> 0, energy_compatibility |-> 0,
     style_compatibility |-> 0, vocal_compatibility |-> 0, overall_score |-> 0,
     technique |-> None, transition_duration |-> Null]

\* generate_mix not called
NoPlan ==
    [tracks |-> <<>>, done |-> FALSE, error |-> FALSE, options |-> <<>>,
     default_strategy |-> None, transitions |-> <<>>, total_duration |-> 0]

\* settings.YTDL_MAX_DOWNLOADS_PER_MINUTE
YtdlMaxDownloadsPerMinute == 49
NumFetchers == 2
MaxClockTicks == 6

\* one AudioFetcher per running job
Fetchers == 1..NumFetchers

\* "self.rate_limit_delay = 60 / settings.YTDL_MAX_DOWNLOADS_PER_MINUTE";
\* times are in milliseconds
RateLimitDelay == 60000 \div YtdlMaxDownloadsPerMinute

\* the step by which the clock advances
ClockTick == RateLimitDelay \div 2

\* AudioFetcher.__init__ in every job: last_download_time = 0, nothing
\* downloaded; the clock (time.time()) is past the first delay
NoLimiter ==
    [now |-> RateLimitDelay,
     last_download_time |-> [f \in Fetchers |-> 0],
     downloads |-> {}]

NumTransitions == 2
MaxStarts == 3

\* the successful start_mix calls, each of which creates one scheduler task
Playbacks == 1..MaxStarts

\* indexes into current_mix.transitions
Positions == 0..(NumTransitions - 1)

\* no task created; "transition" is the index of the transition the loop holds
NoScheduler == [pc |-> "none", transition |-> 0]

\* DJAgent.__init__: no mix, position 0, not playing; no playback started and
\* nothing applied yet
NoAgent ==
    [current_mix |-> FALSE, is_playing |-> FALSE, current_position |-> 0,
     playbacks |-> 0,
     scheduler |-> [p \in Playbacks |-> NoScheduler],
     applied |-> [p \in Playbacks |-> [i \in Positions |-> 0]],
     stale |-> FALSE]

\* the services are not exercised on their own while jobs run
ServicesIdle ==
    /\ store = {}
    /\ limiter = NoLimiter
    /\ agent = NoAgent
    /\ fetched = NoFetch
    /\ analysed = UnanalysedTrack
    /\ harmony = NoHarmony
    /\ pair = NoPair
    /\ plan = NoPlan

Init ==
    /\ jobs = <<>>
    /\ transitions = [j \in JobIds |-> {}]
    /\ tracks \in [TrackIds -> {NoTrack, LegacyTrack}]
    /\ task = [j \in JobIds |-> NoTask]
    /\ response = NoResponse
    /\ ServicesIdle

\* every step but /analyze returns no JobStatusResponse
NoAnalyzeResponse == response' = NoResponse

\* ------------------------------------------------------------ POST /analyze
\* faulty variant of ActiveJobs: the filter matches pending jobs only
ActiveJobsPendingOnly(ref) ==
    {j \in 1..Len(jobs) : /\ jobs[j].playlist_url = ref
                          /\ jobs[j].status = PENDING}

\* jobs matched by the filter of the existence check
ActiveJobs(ref) ==
    {j \in 1..Len(jobs) : /\ jobs[j].playlist_url = ref
                          /\ jobs[j].status \in {PENDING, PROCESSING}}

\* db.query(AnalysisJob).filter(...).first(): rows in insertion order
FirstActive(ref) == CHOOSE j \in ActiveJobs(ref) : \A k \in ActiveJobs(ref) : j <= k

AnalyzePlaylistExisting(ref) ==
    /\ ActiveJobs(ref) # {}
    /\ LET j == FirstActive(ref) IN
         /\ response' = JobStatusResponse(ref, j, jobs[j], CalculateProgress(jobs[j]))
    /\ UNCHANGED <<jobs, transitions, tracks, task>>
    /\ UNCHANGED services

AnalyzePlaylistCreate(ref, opts) ==
    /\ ActiveJobs(ref) = {}
    /\ Len(jobs) < MaxJobs
    /\ LET j == Len(jobs) + 1
           job == [AnalysisJob(ref, opts) EXCEPT !.celery_task_id = TRUE] IN
         /\ jobs' = Append(jobs, job)
         /\ task' = [task EXCEPT ![j] = [NoTask EXCEPT !.pc = "queued"]]
         /\ response' = JobStatusResponse(ref, j, job, 0)
    /\ UNCHANGED <<transitions, tracks>>
    /\ UNCHANGED services

\* the job row is committed, then analyze_playlist_task.delay(...) raises
\* (broker unreachable): the handler's "except Exception" answers 500; the
\* row stays as committed and no task exists for it
AnalyzePlaylistEnqueueFails(ref, opts) ==
    /\ ActiveJobs(ref) = {}
    /\ Len(jobs) < MaxJobs
    /\ jobs' = Append(jobs, AnalysisJob(ref, opts))
    /\ NoAnalyzeResponse
    /\ UNCHANGED <<transitions, tracks, task>>
    /\ UNCHANGED services

\* analyze_playlist: the existence check, then either branch
AnalyzePlaylist(ref, opts) ==
    \/ AnalyzePlaylistExisting(ref)
    \/ AnalyzePlaylistCreate(ref, opts)
    \/ AnalyzePlaylistEnqueueFails(ref, opts)

\* ------------------------------------------------------------ DELETE /{job_id}
\* pcs at which the task is still in the broker or running on a worker
Revocable == {"queued", "started", "loop", "track"}

\* celery_app.control.revoke(task_id, terminate=True): a broadcast that may
\* reach the worker (effective) or fail / arrive nowhere (logged and ignored)
Revoke(j, effective) ==
    IF jobs[j].celery_task_id /\ effective /\ task[j].pc \in Revocable
    THEN [task EXCEPT ![j] = DoneTask]
    ELSE task

\* faulty variant of CancelledJob: the counters are reset on cancel
CancelledJobResetCounters(job) ==
    [job EXCEPT !.status = FAILED, !.error_message = ErrCancelled,
                !.analyzed_tracks = 0, !.downloaded_tracks = 0, !.failed_tracks = 0]

\* the row cancel_job commits
CancelledJob(job) == [job EXCEPT !.status = FAILED, !.error_message = ErrCancelled]

\* cancel_job: load the job, check its status, revoke the task, commit
CancelJob(j, effective) ==
    /\ Exists(j)
    /\ jobs[j].status \in {PENDING, PROCESSING}
    /\ task' = Revoke(j, effective)
    /\ jobs' = [jobs EXCEPT ![j] = CancelledJob(jobs[j])]
    /\ NoAnalyzeResponse
    /\ UNCHANGED <<transitions, tracks>>
    /\ UNCHANGED services

\* ------------------------------------------------------------ worker task
\* tasks that occupy a worker process of the pool
Running == {j \in JobIds : task[j].pc \in {"started", "loop", "track"}}

\* a free worker takes the task from the broker; _analyze_playlist_async up to
\* its first commit: status := PROCESSING
StartJob(j) ==
    /\ Exists(j)
    /\ task[j].pc = "queued"
    /\ Cardinality(Running) < WorkerSlots
    /\ jobs' = [jobs EXCEPT ![j].status = PROCESSING]
    /\ task' = [task EXCEPT ![j].pc = "started"]
    /\ NoAnalyzeResponse
    /\ UNCHANGED <<transitions, tracks>>
    /\ UNCHANGED services

\* the outer "except Exception" of the task: the job is marked failed
FailJob(job, msg) == [job EXCEPT !.status = FAILED, !.error_message = msg]

\* playlist resolution and track listing; n tracks come back, or the
\* catalogue call raises (ok = FALSE), which is fatal for the job
GetPlaylist(j, n, ok) ==
    /\ Exists(j)
    /\ task[j].pc = "started"
    /\ IF ok
       THEN /\ jobs' = [jobs EXCEPT ![j].total_tracks = Min(n, jobs[j].options.max_tracks)]
            /\ task' = [task EXCEPT ![j].pc = "loop"]
       ELSE /\ jobs' = [jobs EXCEPT ![j] = FailJob(jobs[j], ErrCatalogue)]
            /\ task' = [task EXCEPT ![j] = DoneTask]
    /\ NoAnalyzeResponse
    /\ UNCHANGED <<transitions, tracks>>
    /\ UNCHANGED services

\* top of one loop iteration: the next playlist entry t is taken up
BeginTrack(j, t) ==
    /\ Exists(j)
    /\ task[j].pc = "loop"
    /\ task[j].i < jobs[j].total_tracks
    /\ task' = [task EXCEPT ![j].pc = "track", ![j].current = t]
    /\ UNCHANGED <<jobs, transitions, tracks>>
    /\ NoAnalyzeResponse
    /\ UNCHANGED services

\* ---- process_single_track
\* "if not track.file_path or track.file_source == FileSource.UNAVAILABLE"
NeedsFetch(tr) == ~tr.file_path \/ tr.file_source = FS_UNAVAILABLE

\* fetch_audio outcomes: "local" returns a file_path; "s3" (object found or
\* uploaded) and "none" (download failed) both return file_path = None
FetchResults == {"local", "s3", "none"}

AfterFetch(tr, fetch) ==
    IF ~NeedsFetch(tr) THEN tr
    ELSE IF fetch = "local"
         THEN [tr EXCEPT !.file_path = TRUE, !.file_source = FS_LOCAL]
         ELSE [tr EXCEPT !.file_source = FS_UNAVAILABLE]

\* "should_analyze = track.file_path and (not analyzed_at or not skip)"
ShouldAnalyze(tr, skip) == tr.file_path /\ (~tr.analyzed_at \/ ~skip)

\* analyze_track outcomes: "ok", or "error" (decode / extractor failure
\* returned as analysis_error)
AnalysisResults == {"ok", "error"}

AfterAnalysis(tr, skip, analysis) ==
    IF ~ShouldAnalyze(tr, skip) THEN tr
    ELSE IF analysis = "ok"
         THEN [tr EXCEPT !.analyzed_at = TRUE]
         ELSE [tr EXCEPT !.analysis_error = TRUE]

ProcessSingleTrack(tr, skip, fetch, analysis) ==
    AfterAnalysis(AfterFetch(IF tr.exists THEN tr ELSE NewTrack, fetch), skip, analysis)

\* the Track the loop body ends up with
LoopTrack(tr, skip, fetch, analysis) ==
    IF tr.exists /\ skip THEN tr
    ELSE ProcessSingleTrack(tr, skip, fetch, analysis)

\* counters after "if track:" (a Track object is always truthy)
CountTrack(job, tr, nprocessed) ==
    [job EXCEPT !.analyzed_tracks = nprocessed,
                !.downloaded_tracks = IF tr.file_source = FS_YOUTUBE THEN @ + 1 ELSE @,
                !.failed_tracks = IF tr.file_source = FS_UNAVAILABLE THEN @ + 1 ELSE @]

\* counters after "except Exception" inside the loop
CountError(job) == [job EXCEPT !.failed_tracks = @ + 1]

\* rest of the loop iteration, through its db.commit()
EndTrack(j, raised, fetch, analysis) ==
    /\ Exists(j)
    /\ task[j].pc = "track"
    /\ LET t == task[j].current
           skip == jobs[j].options.skip_analysis_if_exists
           tr == LoopTrack(tracks[t], skip, fetch, analysis) IN
         IF raised
         THEN /\ jobs' = [jobs EXCEPT ![j] = CountError(jobs[j])]
              /\ task' = [task EXCEPT ![j].pc = "loop", ![j].i = @ + 1,
                                      ![j].current = 0]
              /\ UNCHANGED tracks
         ELSE /\ tracks' = [tracks EXCEPT ![t] = tr]
              /\ jobs' = [jobs EXCEPT ![j] =
                            CountTrack(jobs[j], tr, Len(task[j].processed) + 1)]
              /\ task' = [task EXCEPT ![j].pc = "loop", ![j].i = @ + 1,
                                      ![j].current = 0,
                                      ![j].processed = Append(@, t)]
    /\ NoAnalyzeResponse
    /\ UNCHANGED <<transitions>>
    /\ UNCHANGED services

\* ---- after the loop
\* mix_generator.generate_mix(...) is an async def called without await:
\* the value is a coroutine object, not the result dict
GenerateMixCall(processed) == "coroutine"

\* '"error" not in mix_result' raises TypeError on a coroutine object
RaisesTypeError(mix_result) == mix_result = "coroutine"

FinishedJob(job, processed) ==
    IF Len(processed) >= 2
    THEN LET mix_result == GenerateMixCall(processed) IN
           IF RaisesTypeError(mix_result)
           THEN FailJob(job, ErrCoroutine)
           ELSE [job EXCEPT !.status = COMPLETED, !.result = "mix"]
    ELSE [job EXCEPT !.status = FAILED, !.error_message = ErrNotEnough]

\* transitions added to the session before the final commit
FinishedTransitions(processed) ==
    IF Len(processed) >= 2 /\ ~RaisesTypeError(GenerateMixCall(processed))
    THEN 0..(Len(processed) - 2)
    ELSE {}

\* the worker after the loop: planner step and last commit of the task
FinishJob(j) ==
    /\ Exists(j)
    /\ task[j].pc = "loop"
    /\ task[j].i = jobs[j].total_tracks
    /\ jobs' = [jobs EXCEPT ![j] = FinishedJob(jobs[j], task[j].processed)]
    /\ transitions' = [transitions EXCEPT ![j] = @ \cup FinishedTransitions(task[j].processed)]
    /\ task' = [task EXCEPT ![j] = DoneTask]
    /\ NoAnalyzeResponse
    /\ UNCHANGED <<tracks>>
    /\ UNCHANGED services

\* ------------------------------------------------------------ specification
Next ==
    \/ \E ref \in Refs, opts \in PlaylistAnalysisOptions : AnalyzePlaylist(ref, opts)
    \/ \E j \in JobIds, effective \in BOOLEAN : CancelJob(j, effective)
    \/ \E j \in JobIds : StartJob(j)
    \/ \E j \in JobIds, n \in 0..MaxPlaylistLen, ok \in BOOLEAN : GetPlaylist(j, n, ok)
    \/ \E j \in JobIds, t \in TrackIds : BeginTrack(j, t)
    \/ \E j \in JobIds, raised \in BOOLEAN, fetch \in FetchResults,
          analysis \in AnalysisResults : EndTrack(j, raised, fetch, analysis)
    \/ \E j \in JobIds : FinishJob(j)

Spec == Init /\ [][Next]_vars

\* one step of the worker task of job j
WorkerStep(j) ==
    \/ StartJob(j)
    \/ \E n \in 0..MaxPlaylistLen, ok \in BOOLEAN : GetPlaylist(j, n, ok)
    \/ \E t \in TrackIds : BeginTrack(j, t)
    \/ \E raised \in BOOLEAN, fetch \in FetchResults, analysis \in AnalysisResults :
          EndTrack(j, raised, fetch, analysis)
    \/ FinishJob(j)

\* the worker pool takes up every queued task and runs every task it took up
\* to its end; requests (submissions, cancels) come or do not come
FairWorkers == \A j \in JobIds : WF_vars(WorkerStep(j))

SpecFair == Init /\ [][Next]_vars /\ FairWorkers

TypeOK ==
    /\ \A j \in 1..Len(jobs) : jobs[j].status \in JobStatus
    /\ Len(jobs) <= MaxJobs

\* the orchestrator is not running while a service is studied alone
OrchestratorIdle ==
    /\ jobs = <<>>
    /\ transitions = [j \in JobIds |-> {}]
    /\ tracks = [t \in TrackIds |-> NoTrack]
    /\ task = [j \in JobIds |-> NoTask]
    /\ response = NoResponse

\* ------------------------------------------------------------ AudioFetcher
NumSongs == 2
NumUuids == 2
MaxFetches == 3

Songs == 1..NumSongs   \* (artist, title) pairs
Uuids == 1..NumUuids   \* values of str(uuid.uuid4())[:8]

\* member names of the FileSource enum
FileSourceNames == {"LOCAL", "YOUTUBE", "UNAVAILABLE"}

\* generate_s3_key: "audio/{artist}/{title}_{unique_id}.mp3" with a fresh
\* unique_id drawn on every call
GenerateS3Key(song, unique_id) == <<song, unique_id>>

\* S3StorageService.file_exists
FileExists(s3_key) == s3_key \in store

\* the result dict as initialised, with the error set by an except clause
ErrorResult(song) ==
    [fetched EXCEPT !.calls = @ + 1, !.song = song, !.file_path = FALSE,
                    !.file_source = FS_UNAVAILABLE, !.s3_object_key = None,
                    !.error = TRUE]

\* result.update({"s3_object_key": ..., "file_source": FileSource.S3, ...}):
\* looking up a name the enum does not declare raises AttributeError, which
\* the enclosing except clause turns into an error result
S3Result(song, s3_key) ==
    IF "S3" \in FileSourceNames
    THEN [fetched EXCEPT !.calls = @ + 1, !.song = song, !.file_path = FALSE,
                         !.file_source = "s3", !.s3_object_key = s3_key,
                         !.error = FALSE]
    ELSE ErrorResult(song)

\* the local-cache branch of fetch_audio
LocalResult(song) ==
    [fetched EXCEPT !.calls = @ + 1, !.song = song, !.file_path = TRUE,
                    !.file_source = FS_LOCAL, !.s3_object_key = None,
                    !.error = FALSE]

\* _download_and_upload_to_s3: remote download, then upload under a new key
DownloadAndUploadToS3(song, dl_ok, unique_id, up_ok) ==
    LET s3_key == GenerateS3Key(song, unique_id) IN
      IF dl_ok /\ up_ok
      THEN /\ store' = store \cup {s3_key}
           /\ fetched' = [S3Result(song, s3_key) EXCEPT !.downloads = @ + 1,
                                                        !.uploads = @ + 1]
      ELSE /\ store' = store
           /\ fetched' = [ErrorResult(song) EXCEPT !.downloads = @ + 1]

\* fetch_audio(artist, title, spotify_id)
FetchAudio(song, lookup_id, local, dl_ok, upload_id, up_ok) ==
    /\ fetched.calls < MaxFetches
    /\ LET s3_key == GenerateS3Key(song, lookup_id) IN
         IF FileExists(s3_key)
         THEN /\ fetched' = S3Result(song, s3_key)
              /\ store' = store
         ELSE IF local
         THEN /\ fetched' = LocalResult(song)
              /\ store' = store
         ELSE DownloadAndUploadToS3(song, dl_ok, upload_id, up_ok)
    /\ UNCHANGED <<orchestrator, limiter, agent, analysed, harmony, pair, plan>>

InitFetch == OrchestratorIdle /\ ServicesIdle

NextFetch ==
    \E song \in Songs, lookup_id \in Uuids, local \in BOOLEAN, dl_ok \in BOOLEAN,
       upload_id \in Uuids, up_ok \in BOOLEAN :
        FetchAudio(song, lookup_id, local, dl_ok, upload_id, up_ok)

SpecFetch == InitFetch /\ [][NextFetch]_vars

\* ------------------------------------------------------------ AudioAnalyzer
MaxRawTempo == 320
MaxAnalyses == 2
TempoMin == 60
TempoMax == 200

\* tempi the beat tracker reports, in beats per minute
RawTempos == 1..MaxRawTempo

\* "if bpm < 60: bpm *= 2 / elif bpm > 200: bpm /= 2", then round(bpm, 2);
\* the result is in hundredths of a beat per minute
FoldTempo(raw) ==
    IF raw < TempoMin THEN 100 * (raw * 2)
    ELSE IF raw > TempoMax THEN (100 * raw) \div 2
    ELSE 100 * raw

\* _analyze_tempo: the bpm entry of its result; None when the extractor raises
AnalyzeTempo(raw, tempo_ok) == IF tempo_ok THEN Some(FoldTempo(raw)) ELSE Null

\* _analyze_key: its result; when the extractor raises it logs a warning and
\* returns no key with confidence 0.0. A detected key is a note name with an
\* optional "m"; the confidence is in ten-thousandths.
AnalyzeKey(key_ok) ==
    IF key_ok
    THEN [key |-> Some(<<"A", "m">>), key_confidence |-> Tenths(8)]
    ELSE [key |-> Null, key_confidence |-> 0]

\* _analyze_energy: the energy entry of its result, in ten-thousandths; None
\* when the extractor raises
AnalyzeEnergy(energy_ok) == IF energy_ok THEN Some(Tenths(5)) ELSE Null

\* analyze_track: the result dict; decode_ok = FALSE is a missing file or an
\* exception outside the guarded extractors
AnalyzeTrack(raw, tempo_ok, key_ok, energy_ok, decode_ok) ==
    [bpm |-> IF decode_ok THEN AnalyzeTempo(raw, tempo_ok) ELSE Null,
     key |-> IF decode_ok THEN AnalyzeKey(key_ok).key ELSE Null,
     key_confidence |-> IF decode_ok THEN AnalyzeKey(key_ok).key_confidence ELSE 0,
     energy |-> IF decode_ok THEN AnalyzeEnergy(energy_ok) ELSE Null,
     analysis_version |-> AnalysisVersion,
     analyzed_at |-> TRUE,
     analysis_error |-> ~decode_ok]

\* process_single_track: what it writes to the track from the result
StoreAnalysis(tr, result) ==
    IF ~result.analysis_error
    THEN [tr EXCEPT !.bpm = result.bpm,
                    !.key = result.key,
                    !.energy = result.energy,
                    !.analysis_version = result.analysis_version,
                    !.analyzed_at = result.analyzed_at]
    ELSE [tr EXCEPT !.analysis_error = TRUE]

\* the analysis part of process_single_track on the track
AnalyseStoredTrack(skip, raw, tempo_ok, key_ok, energy_ok, decode_ok) ==
    /\ analysed.runs < MaxAnalyses
    /\ ShouldAnalyze(analysed, skip)
    /\ analysed' = [StoreAnalysis(analysed,
                        AnalyzeTrack(raw, tempo_ok, key_ok, energy_ok, decode_ok))
                      EXCEPT !.runs = @ + 1]
    /\ UNCHANGED <<orchestrator, limiter, agent, store, fetched, harmony, pair, plan>>

InitAnalysis == OrchestratorIdle /\ ServicesIdle

NextAnalysis ==
    \E skip \in BOOLEAN, raw \in RawTempos, tempo_ok \in BOOLEAN,
       key_ok \in BOOLEAN, energy_ok \in BOOLEAN, decode_ok \in BOOLEAN :
        AnalyseStoredTrack(skip, raw, tempo_ok, key_ok, energy_ok, decode_ok)

SpecAnalysis == InitAnalysis /\ [][NextAnalysis]_vars

\* ------------------------------------------- AudioAnalyzer: compatibility
\* a key is the sequence of the characters of its name
KeyNames ==
    << <<"C">>, <<"C", "#">>, <<"D">>, <<"D", "#">>, <<"E">>, <<"F">>,
       <<"F", "#">>, <<"G">>, <<"G", "#">>, <<"A">>, <<"A", "#">>, <<"B">> >>

\* the keys _analyze_key reports: a key name, with "m" appended when minor
DetectedKeys ==
    {KeyNames[i] : i \in 1..Len(KeyNames)} \cup {Append(KeyNames[i], "m") : i \in 1..Len(KeyNames)}

\* a key name the key wheel does not list
ForeignKeys == {<<"D", "b">>}

\* key.replace("m", "")
RemoveMinor(key) == LET Keep(c) == c # "m" IN SelectSeq(key, Keep)

\* "m" in key
IsMinor(key) == \E i \in 1..Len(key) : key[i] = "m"

\* key_positions
KeyPositions ==
    (<<"C">> :> 0) @@ (<<"G">> :> 1) @@ (<<"D">> :> 2) @@ (<<"A">> :> 3) @@
    (<<"E">> :> 4) @@ (<<"B">> :> 5) @@ (<<"F", "#">> :> 6) @@ (<<"C", "#">> :> 7) @@
    (<<"G", "#">> :> 8) @@ (<<"D", "#">> :> 9) @@ (<<"A", "#">> :> 10) @@ (<<"F">> :> 11)


Abs(x) == IF x < 0 THEN -x ELSE x

Max(x, y) == IF x >= y THEN x ELSE y

\* _calculate_key_compatibility
CalculateKeyCompatibility(key_a, key_b) ==
    IF key_a = key_b THEN ScoreOne
    ELSE LET root_a == RemoveMinor(key_a)
             root_b == RemoveMinor(key_b)
         IN IF root_a \notin DOMAIN KeyPositions \/ root_b \notin DOMAIN KeyPositions
            THEN Tenths(5)
            ELSE LET pos_a == KeyPositions[root_a]
                     pos_b == KeyPositions[root_b]
                     distance == Min(Abs(pos_a - pos_b), 12 - Abs(pos_a - pos_b))
                 IN IF distance = 0
                    THEN IF IsMinor(key_a) = IsMinor(key_b) THEN ScoreOne ELSE Tenths(8)
                    ELSE IF distance = 1 THEN Tenths(7)
                    ELSE IF distance = 7 THEN Tenths(6)
                    ELSE IF distance = 2 THEN Tenths(4)
                    ELSE Tenths(2)

\* the key part of calculate_compatibility, applied to the drawn pair
CompareKeys ==
    /\ harmony.key_compatibility = Null
    /\ harmony' = [harmony EXCEPT
                      !.key_compatibility = Some(CalculateKeyCompatibility(harmony.key_a, harmony.key_b))]
    /\ UNCHANGED <<orchestrator, limiter, agent, store, fetched, analysed, pair, plan>>

InitKeys ==
    /\ OrchestratorIdle
    /\ store = {}
    /\ limiter = NoLimiter
    /\ agent = NoAgent
    /\ fetched = NoFetch
    /\ analysed = UnanalysedTrack
    /\ pair = NoPair
    /\ plan = NoPlan
    /\ \E key_a \in DetectedKeys \cup ForeignKeys, key_b \in DetectedKeys \cup ForeignKeys :
          harmony = [key_a |-> key_a, key_b |-> key_b, key_compatibility |-> Null]

NextKeys == CompareKeys

SpecKeys == InitKeys /\ [][NextKeys]_vars

\* ---------------------------------------------- MixGenerator: techniques
MinCompatibilityScore == 3000
DefaultCrossfadeDuration == 1600

\* the sum of weighted scores at the end of calculate_compatibility
OverallScore(c) ==
    (25 * c.bpm_compatibility + 20 * c.key_compatibility + 30 * c.energy_compatibility
       + 15 * c.style_compatibility + 10 * c.vocal_compatibility) \div 100

\* faulty variant of SelectTransitionTechnique: the energy rule is tried
\* before the beatmatch rule
SelectTransitionTechniqueCutFirst(compatibility) ==
    IF compatibility.overall_score >= Tenths(8) /\ compatibility.bpm_compatibility >= Tenths(7)
    THEN "smooth_blend"
    ELSE IF compatibility.energy_compatibility < Tenths(3) THEN "quick_cut"
    ELSE IF compatibility.bpm_compatibility >= Tenths(8) THEN "beatmatch"
    ELSE IF compatibility.overall_score < Tenths(4) THEN "creative"
    ELSE "crossfade"

\* _select_transition_technique
SelectTransitionTechnique(compatibility) ==
    IF compatibility.overall_score >= Tenths(8) /\ compatibility.bpm_compatibility >= Tenths(7)
    THEN "smooth_blend"
    ELSE IF compatibility.bpm_compatibility >= Tenths(8) THEN "beatmatch"
    ELSE IF compatibility.energy_compatibility < Tenths(3) THEN "quick_cut"
    ELSE IF compatibility.overall_score < Tenths(4) THEN "creative"
    ELSE "crossfade"

\* faulty variant of CrossfadeDuration: the short cut is taken on the energy
\* score, not on the technique
CrossfadeDurationByEnergy(compatibility, technique) ==
    IF compatibility.overall_score < MinCompatibilityScore THEN 400
    ELSE IF technique = "smooth_blend" THEN (DefaultCrossfadeDuration * 3) \div 2
    ELSE IF compatibility.energy_compatibility < Tenths(3) THEN 200
    ELSE DefaultCrossfadeDuration

\* _create_transition: the crossfade duration, in hundredths of a second
CrossfadeDuration(compatibility, technique) ==
    IF compatibility.overall_score < MinCompatibilityScore THEN 400
    ELSE IF technique = "smooth_blend" THEN (DefaultCrossfadeDuration * 3) \div 2
    ELSE IF technique = "quick_cut" THEN 200
    ELSE DefaultCrossfadeDuration

\* the technique and duration part of _create_transition, on the drawn dict
ChooseTechnique ==
    /\ pair.technique = None
    /\ LET technique == SelectTransitionTechnique(pair)
       IN pair' = [pair EXCEPT !.technique = technique,
                               !.transition_duration = Some(CrossfadeDuration(pair, technique))]
    /\ UNCHANGED <<orchestrator, limiter, agent, store, fetched, analysed, harmony, plan>>

\* scores of the form k/20
ScoreGrid == {(k * ScoreOne) \div 20 : k \in 0..20}

\* component scores from which calculate_compatibility sums the overall score
ComponentScores == {Tenths(1), Tenths(5), Tenths(9), ScoreOne}

\* dicts as calculate_compatibility returns them, and dicts with every
\* combination of the three scores the selector reads
InitTechnique ==
    /\ OrchestratorIdle
    /\ store = {}
    /\ limiter = NoLimiter
    /\ agent = NoAgent
    /\ fetched = NoFetch
    /\ analysed = UnanalysedTrack
    /\ harmony = NoHarmony
    /\ plan = NoPlan
    /\ \/ \E b \in ComponentScores, k \in ComponentScores, e \in ComponentScores,
             st \in ComponentScores, v \in ComponentScores :
             LET c == [NoPair EXCEPT !.bpm_compatibility = b, !.key_compatibility = k,
                                     !.energy_compatibility = e, !.style_compatibility = st,
                                     !.vocal_compatibility = v]
             IN pair = [c EXCEPT !.overall_score = OverallScore(c)]
       \/ \E o \in ScoreGrid, b \in ScoreGrid, e \in ScoreGrid :
             pair = [NoPair EXCEPT !.overall_score = o, !.bpm_compatibility = b,
                                   !.energy_compatibility = e]

NextTechnique == ChooseTechnique

SpecTechnique == InitTechnique /\ [][NextTechnique]_vars

\* ------------------------------------------------- MixGenerator: planning
MaxMixTracks == 3

\* Track rows with a file and an analysed tempo: bpm in beats per minute,
\* energy in ten-thousandths, duration in hundredths of a second
PlannerTracks ==
    { [id |-> 1, bpm |-> 128, key |-> <<"C">>, energy |-> Some(8000), duration |-> Some(24000)],
      [id |-> 2, bpm |-> 100, key |-> <<"A", "m">>, energy |-> Some(2000), duration |-> Some(6000)],
      [id |-> 3, bpm |-> 104, key |-> <<"G">>, energy |-> Some(7000), duration |-> Some(20000)],
      [id |-> 4, bpm |-> 126, key |-> Null, energy |-> Null, duration |-> Null],
      [id |-> 5, bpm |-> 124, key |-> <<"F", "#">>, energy |-> Some(5000), duration |-> Some(12800)],
      [id |-> 6, bpm |-> 102, key |-> <<"C">>, energy |-> Some(3000), duration |-> Some(800)] }

\* Track rows with a file that carry a bpm and nothing else
BpmOnlyTracks ==
    { [id |-> 7, bpm |-> 124, key |-> Null, energy |-> Null, duration |-> Null],
      [id |-> 8, bpm |-> 92, key |-> Null, energy |-> Null, duration |-> Null],
      [id |-> 9, bpm |-> 140, key |-> Null, energy |-> Null, duration |-> Null],
      [id |-> 10, bpm |-> 108, key |-> Null, energy |-> Null, duration |-> Null] }

\* MixStrategy
MixStrategies == {"bpm_progression", "energy_flow", "key_harmony", "style_clusters", "smart_dj"}

\* the BPM part of calculate_compatibility: 1 - (difference / larger) / 0.06,
\* not below 0
BpmCompatibility(track_a, track_b) ==
    IF track_a.bpm # 0 /\ track_b.bpm # 0
    THEN Max(0, ScoreOne - (Abs(track_a.bpm - track_b.bpm) * ScoreOne * 100)
                             \div (6 * Max(track_a.bpm, track_b.bpm)))
    ELSE 0

\* the key part of calculate_compatibility
KeyCompatibility(track_a, track_b) ==
    IF track_a.key # Null /\ track_b.key # Null
    THEN CalculateKeyCompatibility(track_a.key, track_b.key)
    ELSE 0

\* the overall score entered into a dict of scores
WithOverallScore(c) == [c EXCEPT !.overall_score = OverallScore(c)]

\* calculate_compatibility on two track dicts of _track_to_dict_enhanced: the
\* dicts carry no style and no vocal entry; an energy of None raises inside the
\* try, which leaves the scores not yet computed at 0
CalculateCompatibility(track_a, track_b) ==
    IF track_a.energy = Null \/ track_b.energy = Null
    THEN [bpm_compatibility |-> BpmCompatibility(track_a, track_b),
          key_compatibility |-> KeyCompatibility(track_a, track_b),
          energy_compatibility |-> 0, style_compatibility |-> 0,
          vocal_compatibility |-> 0, overall_score |-> 0]
    ELSE WithOverallScore(
           [bpm_compatibility |-> BpmCompatibility(track_a, track_b),
            key_compatibility |-> KeyCompatibility(track_a, track_b),
            energy_compatibility |-> Max(0, ScoreOne - Abs(track_a.energy[1] - track_b.energy[1])),
            style_compatibility |-> Tenths(5),
            vocal_compatibility |-> Max(Tenths(3), ScoreOne - 0),
            overall_score |-> 0])

\* round(n / d, 2) on hundredths: n / d to the nearest integer, ties to even
RoundHalfEven(n, d) ==
    LET q == n \div d
        r == n % d
    IN IF 2 * r < d THEN q
       ELSE IF 2 * r > d THEN q + 1
       ELSE IF q % 2 = 0 THEN q ELSE q + 1

\* _find_transition_start (which _find_enhanced_transition_start falls back
\* to, no track carrying _mix_points)
FindTransitionStart(track) ==
    IF track.duration = Null \/ track.duration = Some(0) THEN 6000
    ELSE LET d == track.duration[1]
             min_transition_start4 == Max(4 * d - 25600, 3 * d)
             max_transition_start4 == 4 * (d - DefaultCrossfadeDuration)
         IN RoundHalfEven(Max(0, min_transition_start4 + max_transition_start4), 8)

\* the MixTransition that _create_transition builds from the scores
MixTransition(track_a, track_b, position, compatibility) ==
    [position |-> position,
     track_a_id |-> track_a.id,
     track_b_id |-> track_b.id,
     transition_start |-> FindTransitionStart(track_a),
     transition_duration |->
         CrossfadeDuration(compatibility, SelectTransitionTechnique(compatibility)),
     technique |-> SelectTransitionTechnique(compatibility),
     overall_score |-> compatibility.overall_score]

\* _create_transition: Null when an exception is raised inside its try
CreateTransition(track_a, track_b, position, raises) ==
    IF raises THEN Null
    ELSE Some(MixTransition(track_a, track_b, position, CalculateCompatibility(track_a, track_b)))

\* sum(...)
Sum(seq) ==
    LET partial[k \in 0..Len(seq)] == IF k = 0 THEN 0 ELSE partial[k - 1] + seq[k]
    IN partial[Len(seq)]

\* the loop of _create_mix_option: what _create_transition returns for each
\* pair of neighbours; faulty is the set of pairs of track ids for which it
\* raises
AttemptTransitions(ordered, faulty) ==
    [i \in 1..(Len(ordered) - 1) |->
        CreateTransition(ordered[i], ordered[i + 1], i - 1,
                         <<ordered[i].id, ordered[i + 1].id>> \in faulty)]

\* "if transition: transitions.append(transition)"
AppendCreated(attempted) ==
    LET Created(t) == t # Null
    IN [i \in 1..Len(SelectSeq(attempted, Created)) |-> SelectSeq(attempted, Created)[i][1]]

\* total_duration of _create_mix_option
TotalDuration(ordered, attempted, created) ==
    (IF Len(attempted) > 0 /\ attempted[1] # Null THEN attempted[1][1].transition_start ELSE 0)
    + Sum([i \in 1..Len(created) |-> created[i].transition_duration])
    + (IF /\ created # <<>>
          /\ ordered[Len(ordered)].duration # Null
          /\ ordered[Len(ordered)].duration # Some(0)
       THEN Max(0, ordered[Len(ordered)].duration[1] - DefaultCrossfadeDuration)
       ELSE 0)

\* the MixOption that _create_mix_option returns
MixOption(ordered, strategy, attempted, created) ==
    [strategy |-> strategy,
     transitions |-> created,
     total_duration |-> TotalDuration(ordered, attempted, created)]

\* _create_mix_option
CreateMixOption(ordered, strategy, faulty) ==
    \* the values are bound once each
    CHOOSE option \in
        { MixOption(ordered, strategy, attempted, AppendCreated(attempted)) :
            attempted \in {AttemptTransitions(ordered, faulty)} } : TRUE

\* sorted(tracks, key = ...): stable, so an entry comes after the entries
\* with a smaller key and after the earlier entries with the same key
Sorted(seq, key) ==
    [k \in 1..Len(seq) |->
        seq[CHOOSE i \in 1..Len(seq) :
              k = 1 + Cardinality({j \in 1..Len(seq) :
                                      \/ key[seq[j]] < key[seq[i]]
                                      \/ key[seq[j]] = key[seq[i]] /\ j < i})]]

\* lambda t: t.bpm or 0
BpmKey == [t \in PlannerTracks \cup BpmOnlyTracks |-> t.bpm]

\* lambda t: t.energy or 0.5
EnergyKey ==
    [t \in PlannerTracks \cup BpmOnlyTracks |-> IF t.energy = Null \/ t.energy = Some(0) THEN Tenths(5) ELSE t.energy[1]]

\* _order_by_energy_flow
OrderByEnergyFlow(track_list) ==
    LET sorted_by_energy == Sorted(track_list, EnergyKey)
        n == Len(sorted_by_energy)
        low_energy == SubSeq(sorted_by_energy, 1, n \div 2)
        high_energy == SubSeq(sorted_by_energy, n \div 2 + 1, n)
    IN IF n <= 3 THEN sorted_by_energy
       ELSE [j \in 1..n |->
                IF j <= 2 * Len(low_energy)
                THEN IF j % 2 = 1 THEN low_energy[(j + 1) \div 2] ELSE high_energy[j \div 2]
                ELSE high_energy[j - Len(low_energy)]]

\* the first of the best-scoring entries ("if score > best_score")
BestIndex(scores) ==
    CHOOSE i \in 1..Len(scores) :
        \A j \in 1..Len(scores) : (j < i => scores[j] < scores[i]) /\ (j > i => scores[j] <= scores[i])

RemoveAt(seq, i) == SubSeq(seq, 1, i - 1) \o SubSeq(seq, i + 1, Len(seq))

\* the greedy loop of _order_by_key_harmony
RECURSIVE ChainByKey(_, _)
ChainByKey(ordered, remaining) ==
    IF remaining = <<>> THEN ordered
    ELSE LET last_track == ordered[Len(ordered)]
             best == BestIndex([i \in 1..Len(remaining) |->
                                  CalculateKeyCompatibility(last_track.key, remaining[i].key)])
         IN ChainByKey(Append(ordered, remaining[best]), RemoveAt(remaining, best))

\* _order_by_key_harmony
OrderByKeyHarmony(track_list) ==
    LET HasKey(t) == t.key # Null
        HasNoKey(t) == t.key = Null
        tracks_with_keys == SelectSeq(track_list, HasKey)
        tracks_without_keys == SelectSeq(track_list, HasNoKey)
    IN IF Len(tracks_with_keys) < 2 THEN track_list
       ELSE ChainByKey(<<tracks_with_keys[1]>>, Tail(tracks_with_keys)) \o tracks_without_keys

\* _order_by_style_clusters: no track carries _style_data, so all fall in the
\* group 'unknown', which is sorted by bpm
OrderByStyleClusters(track_list) == Sorted(track_list, BpmKey)

\* the greedy loop of _order_by_compatibility
RECURSIVE ChainByCompatibility(_, _)
ChainByCompatibility(ordered, remaining) ==
    IF remaining = <<>> THEN ordered
    ELSE LET last_track == ordered[Len(ordered)]
             best == BestIndex([i \in 1..Len(remaining) |->
                                  CalculateCompatibility(last_track, remaining[i]).overall_score])
         IN ChainByCompatibility(Append(ordered, remaining[best]), RemoveAt(remaining, best))

\* _order_by_compatibility
OrderByCompatibility(track_list) ==
    IF Len(track_list) < 2 THEN track_list
    ELSE ChainByCompatibility(<<track_list[1]>>, Tail(track_list))

\* _order_by_strategy
OrderByStrategy(track_list, strategy) ==
    CASE strategy = "bpm_progression" -> Sorted(track_list, BpmKey)
      [] strategy = "energy_flow" -> OrderByEnergyFlow(track_list)
      [] strategy = "key_harmony" -> OrderByKeyHarmony(track_list)
      [] strategy = "style_clusters" -> OrderByStyleClusters(track_list)
      [] strategy = "smart_dj" -> OrderByCompatibility(track_list)
      [] OTHER -> Sorted(track_list, BpmKey)

\* strategy_scores
StrategyScores ==
    [strategy \in MixStrategies |->
        CASE strategy = "smart_dj" -> 3000
          [] strategy = "bpm_progression" -> 2500
          [] strategy = "energy_flow" -> 2000
          [] strategy = "key_harmony" -> 1500
          [] strategy = "style_clusters" -> 1000]

\* the score _select_default_option gives an option, as the pair <<n, l>>
\* standing for n / (3600 * l):
\*   0.4 * average overall score + strategy score + 0.1 * max(0, 1 - total / 3600)
OptionScore(option) ==
    LET l == Len(option.transitions)
        overall == Sum([i \in 1..l |-> option.transitions[i].overall_score])
        duration_score == IF option.total_duration > 0
                          THEN Max(0, 360000 - option.total_duration)
                          ELSE 0
        flat == 3600 * StrategyScores[option.strategy] + 10 * duration_score
    IN IF l = 0 THEN <<flat, 1>> ELSE <<1440 * overall + flat * l, l>>

\* score a > score b
ScoresHigher(a, b) == a[1] * b[2] > b[1] * a[2]

\* _select_default_option: max(...) returns the first of the best
SelectDefaultOption(options) ==
    LET best == CHOOSE i \in 1..Len(options) :
                    \A j \in 1..Len(options) :
                        /\ j < i => ScoresHigher(OptionScore(options[i]), OptionScore(options[j]))
                        /\ j > i => ~ScoresHigher(OptionScore(options[j]), OptionScore(options[i]))
    IN options[best]

\* generate_mix_options, from the orderings on
GenerateMixOptions(track_list, faulty) ==
    LET Option(strategy) == CreateMixOption(OrderByStrategy(track_list, strategy), strategy, faulty)
        any_key == \E i \in 1..Len(track_list) : track_list[i].key # Null
    IN <<Option("bpm_progression"), Option("energy_flow")>>
       \o (IF any_key THEN <<Option("key_harmony")>> ELSE <<>>)
       \o <<Option("style_clusters"), Option("smart_dj")>>

\* generate_mix on tracks that pass its filters: fewer than two tracks are an
\* error; otherwise the options are generated and the default chosen, and the
\* result carries the transitions of a BPM progression built anew
GenerateMix(track_list, faulty) ==
    IF Len(track_list) < 2
    THEN [NoPlan EXCEPT !.tracks = track_list, !.done = TRUE, !.error = TRUE]
    ELSE LET options == GenerateMixOptions(track_list, faulty)
             default_mix_option ==
                 CreateMixOption(OrderByStrategy(track_list, "bpm_progression"), "bpm_progression", faulty)
         IN [tracks |-> track_list, done |-> TRUE, error |-> FALSE,
             options |-> options,
             default_strategy |-> SelectDefaultOption(options).strategy,
             transitions |-> default_mix_option.transitions,
             total_duration |-> default_mix_option.total_duration]

\* at most one adjacent pair of tracks for which _create_transition raises
FaultChoices(track_list) ==
    {{}} \cup {{<<track_list[i].id, track_list[j].id>>} : i \in 1..Len(track_list), j \in 1..Len(track_list)}

PlanMix(faulty) ==
    /\ ~plan.done
    /\ plan' = GenerateMix(plan.tracks, faulty)
    /\ UNCHANGED <<orchestrator, limiter, agent, store, fetched, analysed, harmony, pair>>

\* the track lists the worker collects: a playlist that lists a catalogue id
\* twice contributes the same Track twice
InitPlanner ==
    /\ OrchestratorIdle
    /\ store = {}
    /\ limiter = NoLimiter
    /\ agent = NoAgent
    /\ fetched = NoFetch
    /\ analysed = UnanalysedTrack
    /\ harmony = NoHarmony
    /\ pair = NoPair
    /\ \E n \in 1..MaxMixTracks : \E track_list \in [1..n -> PlannerTracks] :
          plan = [NoPlan EXCEPT !.tracks = track_list]

NextPlanner == \E faulty \in FaultChoices(plan.tracks) : PlanMix(faulty)

SpecPlanner == InitPlanner /\ [][NextPlanner]_vars

\* lists of tracks that carry only a bpm
MaxBpmOnlyTracks == 4

InitBpmOnly ==
    /\ OrchestratorIdle
    /\ store = {}
    /\ limiter = NoLimiter
    /\ agent = NoAgent
    /\ fetched = NoFetch
    /\ analysed = UnanalysedTrack
    /\ harmony = NoHarmony
    /\ pair = NoPair
    /\ \E n \in 1..MaxBpmOnlyTracks : \E track_list \in [1..n -> BpmOnlyTracks] :
          plan = [NoPlan EXCEPT !.tracks = track_list]

SpecBpmOnly == InitBpmOnly /\ [][NextPlanner]_vars

\* _create_transition up to the crossfade duration, on the two tracks in
\* plan.tracks: the dict of calculate_compatibility with the technique and the
\* duration chosen for it
ScorePair ==
    /\ pair = NoPair
    /\ Len(plan.tracks) = 2
    /\ \E compatibility \in {CalculateCompatibility(plan.tracks[1], plan.tracks[2])} :
          pair' = [bpm_compatibility |-> compatibility.bpm_compatibility,
                   key_compatibility |-> compatibility.key_compatibility,
                   energy_compatibility |-> compatibility.energy_compatibility,
                   style_compatibility |-> compatibility.style_compatibility,
                   vocal_compatibility |-> compatibility.vocal_compatibility,
                   overall_score |-> compatibility.overall_score,
                   technique |-> SelectTransitionTechnique(compatibility),
                   transition_duration |->
                       Some(CrossfadeDuration(compatibility, SelectTransitionTechnique(compatibility)))]
    /\ UNCHANGED <<orchestrator, limiter, agent, store, fetched, analysed, harmony, plan>>

InitPairs ==
    /\ OrchestratorIdle
    /\ store = {}
    /\ limiter = NoLimiter
    /\ agent = NoAgent
    /\ fetched = NoFetch
    /\ analysed = UnanalysedTrack
    /\ harmony = NoHarmony
    /\ pair = NoPair
    /\ \E track_a \in PlannerTracks \cup BpmOnlyTracks, track_b \in PlannerTracks \cup BpmOnlyTracks :
          plan = [NoPlan EXCEPT !.tracks = <<track_a, track_b>>]

NextPairs == ScorePair

SpecPairs == InitPairs /\ [][NextPairs]_vars

\* ------------------------------------------------ AudioFetcher: rate limit
\* _rate_limit of fetcher f, called before a remote download: sleeps until
\* rate_limit_delay has passed since this fetcher's last_download_time, sets
\* last_download_time to the time it wakes, and the download starts then.
\* A fetcher that is asleep in an earlier call does not call again.
RateLimit(f) ==
    /\ limiter.now >= limiter.last_download_time[f]
    /\ LET start == Max(limiter.now, limiter.last_download_time[f] + RateLimitDelay) IN
         limiter' = [limiter EXCEPT
                        !.last_download_time[f] = start,
                        !.downloads = @ \cup {[fetcher |-> f, at |-> start]}]
    /\ UNCHANGED <<orchestrator, agent, store, fetched, analysed, harmony, pair, plan>>

\* time passes
Tick ==
    /\ limiter.now < RateLimitDelay + MaxClockTicks * ClockTick
    /\ limiter' = [limiter EXCEPT !.now = @ + ClockTick]
    /\ UNCHANGED <<orchestrator, agent, store, fetched, analysed, harmony, pair, plan>>

InitRateLimit == OrchestratorIdle /\ ServicesIdle

NextRateLimit ==
    \/ \E f \in Fetchers : RateLimit(f)
    \/ Tick

SpecRateLimit == InitRateLimit /\ [][NextRateLimit]_vars

\* ------------------------------------------------------------------ DJAgent
\* load_mix with a result that has transitions
LoadedAgent == [NoAgent EXCEPT !.current_mix = TRUE]

\* start_mix; the AudioController's coroutines do not suspend, so the call
\* runs in one piece; asyncio.create_task leaves the new task to run later
StartMix ==
    /\ agent.playbacks < MaxStarts
    /\ agent' =
         IF ~agent.current_mix \/ agent.is_playing THEN agent
         ELSE [agent EXCEPT !.is_playing = TRUE,
                            !.current_position = 0,
                            !.playbacks = @ + 1,
                            !.scheduler[agent.playbacks + 1] =
                                [pc |-> "created", transition |-> 0]]
    /\ UNCHANGED <<orchestrator, limiter, store, fetched, analysed, harmony, pair, plan>>

\* stop_mix: is_playing = False, then audio calls and an event
StopMix ==
    /\ agent' = [agent EXCEPT !.is_playing = FALSE]
    /\ UNCHANGED <<orchestrator, limiter, store, fetched, analysed, harmony, pair, plan>>

\* "success = await self._apply_transition(transition)" and
\* "self.current_position += 1" by the task created by playback s: transition
\* i is applied in the playback that is current; stale records that a task of
\* an earlier start_mix applied a transition
ApplyTransition(a, s, i) ==
    [a EXCEPT !.applied[a.playbacks][i] = @ + 1,
              !.current_position = @ + 1,
              !.stale = @ \/ s < a.playbacks]

\* the loop is left: "if self.is_playing: self.is_playing = False", task ends
LeaveLoop(a, s) ==
    [a EXCEPT !.is_playing = FALSE, !.scheduler[s] = [pc |-> "done", transition |-> 0]]

\* _run_transition_scheduler from the top of the loop until the task sleeps or
\* ends: n iterations find wait_time <= 0 and apply at once, the next sleeps
RECURSIVE RunScheduler(_, _, _)
RunScheduler(a, s, n) ==
    IF ~(a.is_playing /\ a.current_position < NumTransitions) THEN LeaveLoop(a, s)
    ELSE IF n = 0
    THEN [a EXCEPT !.scheduler[s] = [pc |-> "sleeping", transition |-> a.current_position]]
    ELSE RunScheduler(ApplyTransition(a, s, a.current_position), s, n - 1)

\* the event loop runs the task created by start_mix for the first time
SchedulerStart(s, n) ==
    /\ agent.scheduler[s].pc = "created"
    /\ agent' = RunScheduler(agent, s, n)
    /\ UNCHANGED <<orchestrator, limiter, store, fetched, analysed, harmony, pair, plan>>

\* asyncio.sleep(wait_time) returns: "if not self.is_playing: break", else
\* the transition read before the sleep is applied and the loop goes on
SchedulerWake(s, n) ==
    /\ agent.scheduler[s].pc = "sleeping"
    /\ agent' =
         IF ~agent.is_playing THEN LeaveLoop(agent, s)
         ELSE RunScheduler(ApplyTransition(agent, s, agent.scheduler[s].transition), s, n)
    /\ UNCHANGED <<orchestrator, limiter, store, fetched, analysed, harmony, pair, plan>>

InitAgent ==
    /\ OrchestratorIdle
    /\ store = {}
    /\ limiter = NoLimiter
    /\ fetched = NoFetch
    /\ analysed = UnanalysedTrack
    /\ harmony = NoHarmony
    /\ pair = NoPair
    /\ plan = NoPlan
    /\ agent = LoadedAgent

NextAgent ==
    \/ StartMix
    \/ StopMix
    \/ \E s \in Playbacks, n \in 0..NumTransitions : SchedulerStart(s, n)
    \/ \E s \in Playbacks, n \in 0..NumTransitions : SchedulerWake(s, n)

SpecAgent == InitAgent /\ [][NextAgent]_vars

\* ================================================================ claims
PendingOrProcessing == {PENDING, PROCESSING}

\* C1 (as claimed): once a job's committed status is completed or failed it
\* never changes again, whatever the interleaving of cancel requests and the
\* worker; a cancelled job is never moved to processing or completed.
C1_TerminalStatusIsFinal ==
    [][\A j \in 1..Len(jobs) :
          jobs[j].status \in {COMPLETED, FAILED} => jobs'[j].status = jobs[j].status]_vars

\* a cancel_job step taken on job j while its committed status is processing
CancelOfProcessing(j) ==
    /\ Exists(j)
    /\ jobs[j].status = PROCESSING
    /\ \E effective \in BOOLEAN : CancelJob(j, effective)

CancelCommitted(j) == Exists(j) /\ jobs[j].error_message = ErrCancelled

\* C3 (as claimed): after a cancel request for a job has been committed, the
\* worker starts no further track of that job and persists no transitions or
\* result for it.
C3_NoTrackAfterCancel ==
    [][\A j \in JobIds :
          CancelCommitted(j) =>
              /\ \A t \in TrackIds : ~BeginTrack(j, t)
              /\ FinishJob(j) => /\ transitions'[j] = transitions[j]
                                 /\ jobs'[j].result = jobs[j].result]_vars

\* C4: an /analyze request for a playlist that has a pending or processing job
\* returns the id and the current counters of such a job, adds no job row and
\* enqueues no task; when the previous step was an /analyze request for the
\* same playlist, both return the same job id.
C4_DedupReturnsExisting ==
    [][\A ref \in Refs :
          (/\ response' # NoResponse
           /\ response'.ref = ref
           /\ \E j \in 1..Len(jobs) : /\ jobs[j].playlist_url = ref
                                      /\ jobs[j].status \in PendingOrProcessing)
          => /\ response'.id \in 1..Len(jobs)
             /\ jobs[response'.id].playlist_url = ref
             /\ jobs[response'.id].status \in PendingOrProcessing
             /\ response'.status = jobs[response'.id].status
             /\ response'.total_tracks = jobs[response'.id].total_tracks
             /\ response'.analyzed_tracks = jobs[response'.id].analyzed_tracks
             /\ response'.downloaded_tracks = jobs[response'.id].downloaded_tracks
             /\ response'.failed_tracks = jobs[response'.id].failed_tracks
             /\ jobs' = jobs
             /\ task' = task
             /\ response.ref = ref => response'.id = response.id]_vars

\* an /analyze request has just been answered with an existing job that is
\* processing and has already counted a track
C4_Witness ==
    /\ response # NoResponse
    /\ response.status = PROCESSING
    /\ response.analyzed_tracks > 0
    /\ Len(jobs) < MaxJobs

\* C5 (as claimed): in every committed state of every job,
\* analyzed_tracks + failed_tracks <= total_tracks.
C5_CountersWithinTotal ==
    \A j \in 1..Len(jobs) :
        jobs[j].analyzed_tracks + jobs[j].failed_tracks <= jobs[j].total_tracks

\* processed tracks that are analysed and have a usable file pointer
UsableProcessed(j) ==
    {k \in 1..Len(task[j].processed) :
        LET tr == tracks[task[j].processed[k]] IN
          tr.analyzed_at /\ tr.file_path /\ tr.file_source # FS_UNAVAILABLE}

\* C6 (as claimed): when the loop ends with at least 2 analysed tracks that have
\* usable file pointers, the job persists transitions and the result blob and
\* ends completed; with fewer it ends failed with the not-enough-tracks reason
\* and persists nothing of the planner.
C6_FinishOutcome ==
    [][\A j \in JobIds :
          FinishJob(j) =>
              IF Cardinality(UsableProcessed(j)) >= 2
              THEN /\ jobs'[j].status = COMPLETED
                   /\ jobs'[j].result # None
                   /\ transitions'[j] # {}
              ELSE /\ jobs'[j].status = FAILED
                   /\ jobs'[j].error_message = ErrNotEnough
                   /\ jobs'[j].result = jobs[j].result
                   /\ transitions'[j] = transitions[j]]_vars

\* the loop body of job j fails on its track: it raises, the acquisition
\* returns nothing, or the analysis returns an analysis_error
TrackFailure(j, raised, fetch, analysis) ==
    LET tr0 == tracks[task[j].current]
        skip == jobs[j].options.skip_analysis_if_exists
        base == IF tr0.exists THEN tr0 ELSE NewTrack
        attempted == ~(tr0.exists /\ skip)
    IN  \/ raised
        \/ attempted /\ NeedsFetch(base) /\ fetch = "none"
        \/ attempted /\ ShouldAnalyze(AfterFetch(base, fetch), skip) /\ analysis = "error"

\* C7 (as claimed): a failure confined to one track advances failed_tracks by
\* one, leaves the job's status alone, and the worker moves on to the next
\* track.
C7_TrackFailureCounted ==
    [][\A j \in JobIds, raised \in BOOLEAN, fetch \in FetchResults,
          analysis \in AnalysisResults :
          (EndTrack(j, raised, fetch, analysis) /\ TrackFailure(j, raised, fetch, analysis))
          => /\ jobs'[j].failed_tracks = jobs[j].failed_tracks + 1
             /\ jobs'[j].status = jobs[j].status
             /\ task'[j].pc = "loop"
             /\ task'[j].i = task[j].i + 1]_vars

\* the progress the claim prescribes, in tenths of a percent (0 of 0 tracks
\* counts as 0)
ClaimedProgress(job) ==
    IF job.status = COMPLETED THEN 1000
    ELSE IF job.status = FAILED THEN 0
    ELSE IF job.total_tracks = 0 THEN 0
    ELSE Min(RoundTenths(job.analyzed_tracks, job.total_tracks), 990)

\* C9: for every reachable job the reported progress is 100 if completed, 0 if
\* failed, else min(100*analyzed/total, 99) rounded to one decimal; it is 100
\* exactly when the job is completed and at most 99 while pending or processing.
C9_ProgressContract ==
    \A j \in 1..Len(jobs) :
        /\ CalculateProgress(jobs[j]) = ClaimedProgress(jobs[j])
        /\ (CalculateProgress(jobs[j]) = 1000) <=> (jobs[j].status = COMPLETED)
        /\ jobs[j].status \in PendingOrProcessing => CalculateProgress(jobs[j]) <= 990

\* a processing job whose every track has been counted: the cap applies
C9_Witness ==
    \E j \in 1..Len(jobs) :
        /\ jobs[j].status = PROCESSING
        /\ jobs[j].total_tracks > 0
        /\ jobs[j].analyzed_tracks = jobs[j].total_tracks
        /\ CalculateProgress(jobs[j]) = 990

\* C10: analyzed_tracks, downloaded_tracks and failed_tracks of a job never
\* decrease from one committed state to the next, cancellation included.
C10_CountersMonotonic ==
    [][\A j \in 1..Len(jobs) :
          /\ jobs'[j].analyzed_tracks >= jobs[j].analyzed_tracks
          /\ jobs'[j].downloaded_tracks >= jobs[j].downloaded_tracks
          /\ jobs'[j].failed_tracks >= jobs[j].failed_tracks]_vars

\* a cancelled job all of whose counters have advanced
C10_Witness ==
    \E j \in 1..Len(jobs) :
        /\ jobs[j].error_message = ErrCancelled
        /\ jobs[j].analyzed_tracks > 0
        /\ jobs[j].downloaded_tracks > 0
        /\ jobs[j].failed_tracks > 0

\* an object for the song has been uploaded to the store
Uploaded(song) == \E unique_id \in Uuids : GenerateS3Key(song, unique_id) \in store

\* C11 (as claimed): once a song's audio has been uploaded, a later fetch_audio
\* for the same song finds the object under the key it computes and returns
\* source = object-store, with no remote download and no second upload.
C11_SecondAcquireHitsStore ==
    [][\A song \in Songs :
          (/\ Uploaded(song)
           /\ fetched'.calls = fetched.calls + 1
           /\ fetched'.song = song)
          => /\ fetched'.file_source = "s3"
             /\ fetched'.s3_object_key \in store
             /\ fetched'.downloads = fetched.downloads
             /\ fetched'.uploads = fetched.uploads
             /\ store' = store]_vars

\* C12 (as claimed): a Track whose analyzed_at is set has a non-null
\* analysis_version and a non-null bpm, after any sequence of analyses.
C12_AnalysedHasVersionAndBpm ==
    analysed.analyzed_at =>
        /\ analysed.analysis_version # None
        /\ analysed.bpm # Null

\* C20 (as claimed): the bpm stored by the tempo extractor lies in [60, 200],
\* because tempi outside that range are doubled or halved into it.
C20_StoredBpmInRange ==
    analysed.bpm # Null =>
        /\ analysed.bpm[1] >= 100 * TempoMin
        /\ analysed.bpm[1] <= 100 * TempoMax

\* the keys of a compared pair
Compared(key_a, key_b) ==
    /\ harmony.key_a = key_a
    /\ harmony.key_b = key_b
    /\ harmony.key_compatibility # Null

\* C19 (as claimed): key compatibility is 0.7 for ('C', 'G'), 0.8 for
\* ('C', 'Am') and 0.2 for ('C', 'F#').
C19_KeyWheelExamples ==
    /\ Compared(<<"C">>, <<"G">>) => harmony.key_compatibility = Some(Tenths(7))
    /\ Compared(<<"C">>, <<"A", "m">>) => harmony.key_compatibility = Some(Tenths(8))
    /\ Compared(<<"C">>, <<"F", "#">>) => harmony.key_compatibility = Some(Tenths(2))

\* the first matching rule of the technique selector, as the specification
\* lists the rules
FirstMatchingRule(overall, bpm, energy) ==
    IF overall >= 8000 /\ bpm >= 7000 THEN "smooth_blend"
    ELSE IF bpm >= 8000 THEN "beatmatch"
    ELSE IF energy < 3000 THEN "quick_cut"
    ELSE IF overall < 4000 THEN "creative"
    ELSE "crossfade"

\* the duration the specification gives, in hundredths of a second
DurationRule(overall, technique) ==
    IF overall < 3000 THEN 400
    ELSE IF technique = "smooth_blend" THEN 2400
    ELSE IF technique = "quick_cut" THEN 200
    ELSE 1600

\* C17: for every combination of overall, BPM and energy scores the technique
\* chosen is the first matching rule (smooth_blend, beatmatch, quick_cut,
\* creative, else crossfade) and the duration is 4 s when overall < 0.3, else
\* 24 s for smooth_blend, 2 s for quick_cut and 16 s otherwise.
C17_TechniqueAndDuration ==
    pair.technique # None =>
        /\ pair.technique =
             FirstMatchingRule(pair.overall_score, pair.bpm_compatibility, pair.energy_compatibility)
        /\ pair.transition_duration = Some(DurationRule(pair.overall_score, pair.technique))

\* C17 witness: a quick cut whose duration is forced to 4 s by a low overall
\* score has been chosen
C17_Witness ==
    /\ pair.technique = "quick_cut"
    /\ pair.overall_score < 3000
    /\ pair.transition_duration = Some(400)

\* the pair of the example, with a technique chosen
ExamplePair ==
    /\ pair.technique # None
    /\ pair.energy_compatibility = 1000
    /\ pair.bpm_compatibility = 9000
    /\ pair.key_compatibility = 9000
    /\ pair.style_compatibility = 10000
    /\ pair.vocal_compatibility = 10000
    /\ pair.overall_score = OverallScore(pair)

\* C18 (as claimed): for Energy 0.1, BPM 0.9, Key 0.9, Style 1.0, Vocal 1.0
\* the technique is quick_cut and the duration is 2 s.
C18_QuickCutExample ==
    ExamplePair =>
        /\ pair.technique = "quick_cut"
        /\ pair.transition_duration = Some(200)

\* C18 (amended): for Energy 0.1, BPM 0.9, Key 0.9, Style 1.0, Vocal 1.0 the
\* overall score is 0.685, the technique is beatmatch and the duration 16 s.
C18_BeatmatchExample ==
    ExamplePair =>
        /\ pair.overall_score = 6850
        /\ pair.technique = "beatmatch"
        /\ pair.transition_duration = Some(1600)

\* C18 witness: a technique has been chosen for the pair of the example
C18_Witness == ExamplePair

TrackById(id) == CHOOSE t \in PlannerTracks \cup BpmOnlyTracks : t.id = id

BpmExample == <<TrackById(7), TrackById(8), TrackById(9), TrackById(10)>>

\* C21 (as claimed): for four tracks that carry only a bpm (124, 92, 140, 108)
\* the plan orders them 92, 108, 124, 140 and has exactly three transitions,
\* each of 16 s.
C21_BpmOnlyExample ==
    [][(plan.tracks = BpmExample /\ PlanMix({})) =>
          /\ Len(plan'.transitions) = 3
          /\ [i \in 1..3 |-> plan'.transitions[i].track_a_id] = <<8, 10, 7>>
          /\ [i \in 1..3 |-> plan'.transitions[i].track_b_id] = <<10, 7, 9>>
          /\ \A i \in 1..3 : plan'.transitions[i].transition_duration = 1600]_vars

\* C22 (as claimed): every compatibility record has overall = 0.25 BPM +
\* 0.20 Key + 0.30 Energy + 0.15 Style + 0.10 Vocal of its own sub-scores,
\* also for pairs in which a track has no energy, key or style value.
C22_OverallIsWeightedSum ==
    pair.technique # None =>
        pair.overall_score =
            (25 * pair.bpm_compatibility + 20 * pair.key_compatibility
               + 30 * pair.energy_compatibility + 15 * pair.style_compatibility
               + 10 * pair.vocal_compatibility) \div 100

\* the Track that process_single_track starts from for playlist entry t
StartingTrack(t) == IF tracks[t].exists THEN tracks[t] ELSE NewTrack

\* the loop iteration of job j calls fetch_audio: the entry is not taken over
\* as an existing track, and it has no file yet
FetchCalled(j) ==
    /\ Exists(j)
    /\ task[j].pc = "track"
    /\ ~(tracks[task[j].current].exists /\ jobs[j].options.skip_analysis_if_exists)
    /\ NeedsFetch(StartingTrack(task[j].current))

C24_SkipOnlyWhenAnalysed ==
    [][\A j \in JobIds :
          (/\ Exists(j)
           /\ task[j].pc = "track"
           /\ ~(jobs[j].options.skip_analysis_if_exists /\ tracks[task[j].current].analyzed_at)
           /\ EndTrack(j, FALSE, "local", "ok")) =>
              /\ tracks'[task[j].current].file_path
              /\ tracks'[task[j].current].analyzed_at]_vars

\* an analysis of a track that was analysed before
Reanalysed == analysed.runs >= 1 /\ analysed'.runs = analysed.runs + 1

\* C25 (as claimed): after a re-analysis the analysis block holds only what
\* that run produced: a failed run produces an analysis_error and no bpm, a
\* successful run no analysis_error, so the two are never both present.
C25_BlockReplaced ==
    [][Reanalysed => ~(analysed'.analysis_error /\ analysed'.bpm # Null)]_vars

\* the first analysis of the track, in which the tempo and energy extractors
\* delivered and the key extractor failed
OnlyKeyFailed ==
    /\ analysed.runs = 1
    /\ analysed.bpm # Null
    /\ analysed.energy # Null
    /\ analysed.key = Null

\* C26 (as claimed): when exactly the key extractor fails, the Track is stored
\* with key null, bpm and energy from the same run, and an analysis_error that
\* names the key extractor.
C26_KeyFailureRecorded == OnlyKeyFailed => analysed.analysis_error

\* C27 (as claimed): across all jobs that run at the same time, any two remote
\* downloads start at least 60/N seconds apart, N being the downloads-per-
\* minute budget.
C27_DownloadsSpaced ==
    \A d1 \in limiter.downloads, d2 \in limiter.downloads :
        d1 # d2 => Abs(d1.at - d2.at) >= RateLimitDelay

\* C28 (as claimed): at every moment at most one job per playlist reference is
\* pending or processing.
C28_OneActiveJobPerReference ==
    \A ref \in Refs : Cardinality(ActiveJobs(ref)) <= 1

\* job j has reached a final status
Ended(j) == Exists(j) /\ jobs[j].status \in {COMPLETED, FAILED}

\* C29 (as claimed): under fair scheduling of the worker pool every job record
\* that was created eventually has status completed or failed.
C29_EveryJobEnds == \A j \in JobIds : Exists(j) ~> Ended(j)

\* scheduler tasks that have not ended
ActiveSchedulers == {s \in Playbacks : agent.scheduler[s].pc \in {"created", "sleeping"}}

\* C30 (as claimed): after any sequence of start_mix and stop_mix on an agent
\* with a loaded mix, at most one scheduler loop is active, each transition is
\* applied at most once per playback, current_position never exceeds the
\* number of transitions, and a scheduler started by an earlier start_mix
\* applies no transition after stop_mix.
C30_OneSchedulerPerPlayback ==
    /\ Cardinality(ActiveSchedulers) <= 1
    /\ \A p \in Playbacks, i \in Positions : agent.applied[p][i] <= 1
    /\ agent.current_position <= NumTransitions
    /\ ~agent.stale

====
